---- MODULE Spec2Model ----
(***************************************************************************)
(* cobald_condor_limits: cached views on an HTCondor pool.                 *)
(*                                                                         *)
(* CondorPoolView (query_view.py) is a lazily refreshed mapping; the three *)
(* views of adapter.py (ConcurrencyConstraintView, ConcurrencyUsageView,   *)
(* PoolResources) supply _query_data.  Text is a sequence of one-character *)
(* strings, a dict is a function from keys (texts) to numbers, wrapped in  *)
(* a record so that Python's None is a value of the same shape.            *)
(***************************************************************************)
EXTENDS Integers, Sequences, FiniteSets, TLC

\* ------------------------------------------------------------------ bounds
\* The clock runs from 1 (time.time() is positive) to MaxTime.
MaxTime == 3
\* Largest time an external query takes (line 40 to line 49 of query_view.py).
MaxQueryTime == 1
\* max_age is drawn from -1..MaxAge.
MaxAge == 2
\* Values written by set() are given in halves, 0..MaxHalves (0, 0.5, 1, ...).
MaxHalves == 2
\* Longest output, in lines, the parsers are given where every output up to
\* a length is tried.
MaxLines == 3

\* -------------------------------------------------------------------- text
IsSpace(c) == c = " "

RECURSIVE lstrip(_)
lstrip(s) ==
    IF Len(s) > 0 /\ IsSpace(s[1]) THEN lstrip(SubSeq(s, 2, Len(s))) ELSE s

RECURSIVE rstrip(_)
rstrip(s) ==
    IF Len(s) > 0 /\ IsSpace(s[Len(s)]) THEN rstrip(SubSeq(s, 1, Len(s) - 1)) ELSE s

\* str.strip()
strip(s) == rstrip(lstrip(s))

\* c in s
Contains(s, c) == \E i \in 1..Len(s) : s[i] = c

\* s.find(c) + 1, for a c that occurs in s
Find(s, c) == CHOOSE i \in 1..Len(s) : s[i] = c /\ \A j \in 1..(i - 1) : s[j] # c

\* str.partition(c): <<head, separator, tail>> around the first c
partition(s, c) ==
    IF Contains(s, c)
    THEN <<SubSeq(s, 1, Find(s, c) - 1), <<c>>, SubSeq(s, Find(s, c) + 1, Len(s))>>
    ELSE <<s, <<>>, <<>>>>

UpperCase ==
    <<"A", "B", "C", "D", "E", "F", "G", "H", "I", "J", "K", "L", "M",
      "N", "O", "P", "Q", "R", "S", "T", "U", "V", "W", "X", "Y", "Z">>
LowerCase ==
    <<"a", "b", "c", "d", "e", "f", "g", "h", "i", "j", "k", "l", "m",
      "n", "o", "p", "q", "r", "s", "t", "u", "v", "w", "x", "y", "z">>

LowerChar(c) ==
    IF \E i \in 1..26 : UpperCase[i] = c
    THEN LowerCase[CHOOSE i \in 1..26 : UpperCase[i] = c]
    ELSE c

\* str.lower()
lower(s) == [i \in 1..Len(s) |-> LowerChar(s[i])]

\* s[-n:]
Suffix(s, n) == IF Len(s) <= n THEN s ELSE SubSeq(s, Len(s) - n + 1, Len(s))

\* s[:-n]
DropLast(s, n) == SubSeq(s, 1, Len(s) - n)

\* s[n:]
DropFirst(s, n) == SubSeq(s, n + 1, Len(s))

\* s.startswith(p)
startswith(s, p) == Len(s) >= Len(p) /\ SubSeq(s, 1, Len(p)) = p

\* A replace that leaves the text as it is.
NoReplace(s, a, b) == s

\* s.replace(a, b) for single characters
replace(s, a, b) == [i \in 1..Len(s) |-> IF s[i] = a THEN b ELSE s[i]]

Digits == <<"0", "1", "2", "3", "4", "5", "6", "7", "8", "9">>
IsDigit(c) == \E d \in 1..10 : Digits[d] = c
DigitVal(c) == (CHOOSE d \in 1..10 : Digits[d] = c) - 1

RECURSIVE DecVal(_)
DecVal(s) ==
    IF Len(s) = 0 THEN 0
    ELSE DecVal(SubSeq(s, 1, Len(s) - 1)) * 10 + DigitVal(s[Len(s)])

\* float(text).  The texts of this model are words of letters, digits, '_',
\* '.', '=' and spaces that are no float literal unless they are all digits
\* (no "inf", "nan", exponent or fraction is among them); on those float()
\* succeeds exactly on the nonempty digit strings, surrounding blanks ignored.
float(s) ==
    LET t == strip(s)
    IN  IF Len(t) > 0 /\ \A i \in 1..Len(t) : IsDigit(t[i])
        THEN [exc |-> "none", val |-> DecVal(t)]
        ELSE [exc |-> "ValueError", val |-> 0]

\* Length of the first whitespace-free token of t (t starts with a non-blank).
TokenLen(t) == IF Contains(t, " ") THEN Find(t, " ") - 1 ELSE Len(t)

\* str.split(): the whitespace-separated fields
RECURSIVE split(_)
split(s) ==
    LET t == lstrip(s)
    IN  IF Len(t) = 0 THEN <<>>
        ELSE <<SubSeq(t, 1, TokenLen(t))>> \o split(SubSeq(t, TokenLen(t) + 1, Len(t)))

\* str(n) for a natural number n
RECURSIVE str(_)
str(n) == IF n < 10 THEN <<Digits[n + 1]>> ELSE str(n \div 10) \o <<Digits[(n % 10) + 1]>>

\* The text as one string, as it is passed on a command line.
RECURSIVE Join(_)
Join(s) == IF Len(s) = 0 THEN "" ELSE s[1] \o Join(SubSeq(s, 2, Len(s)))

\* ------------------------------------------------------------------- dicts
EmptyMap == [k \in {} |-> 0]
\* m[k] = v
Put(m, k, v) == [x \in (DOMAIN m) \cup {k} |-> IF x = k THEN v ELSE m[x]]
\* a dict value / None
Dict(m) == [isNone |-> FALSE, map |-> m]
None == [isNone |-> TRUE, map |-> EmptyMap]

\* ------------------------------------------------------- the key transforms
LIMIT_SUFFIX == <<"_", "l", "i", "m", "i", "t">>
USAGE_PREFIX ==
    <<"C", "o", "n", "c", "u", "r", "r", "e", "n", "c", "y", "L", "i", "m", "i", "t", "_">>

\* A transform that returns the resource in lower case.
KeyToLowerResource(key) ==
    IF Suffix(lower(key), 6) = LIMIT_SUFFIX
    THEN [exc |-> "none", val |-> DropLast(lower(key), 6)]
    ELSE [exc |-> "ValueError", val |-> <<>>]

\* ConcurrencyConstraintView._key_to_resource
ConcurrencyConstraintView_key_to_resource(key) ==
    IF Suffix(lower(key), 6) = LIMIT_SUFFIX
    THEN [exc |-> "none", val |-> DropLast(key, 6)]
    ELSE [exc |-> "ValueError", val |-> <<>>]

\* ConcurrencyUsageView._key_to_resource
ConcurrencyUsageView_key_to_resource(key) ==
    IF startswith(key, USAGE_PREFIX)
    THEN [exc |-> "none", val |-> DropFirst(key, 17)]
    ELSE [exc |-> "ValueError", val |-> <<>>]

\* The key_transform argument of query_limits: the view that passes its
\* _key_to_resource.
key_transform(view, key) ==
    IF view = "limit" THEN ConcurrencyConstraintView_key_to_resource(key)
    ELSE ConcurrencyUsageView_key_to_resource(key)

\* --------------------------------------------------------- the line parser
\* An assignment that keeps the entry a resource already has.
query_limits_keep_first(acc, resource, number) ==
    IF resource.exc # "none" THEN acc
    ELSE IF number.exc # "none" THEN acc
    ELSE IF resource.val \in DOMAIN acc THEN acc
    ELSE [x \in (DOMAIN acc) \cup {resource.val} |->
             IF x = resource.val THEN number.val ELSE acc[x]]

\* Lines 22-30 of query_limits: resource is what key_transform(key) gave,
\* number what float(value) gave.
query_limits_entry(acc, resource, number) ==
    IF resource.exc # "none" THEN acc
    ELSE IF number.exc # "none" THEN acc
    ELSE Put(acc, resource.val, number.val)

\* Line 21 of query_limits: parts is item.partition('=').
query_limits_parts(acc, parts, view) ==
    query_limits_entry(acc, key_transform(view, strip(parts[1])), float(strip(parts[3])))

\* One pass of the loop body of query_limits (lines 19-30) over item.
query_limits_item(acc, item, view) ==
    IF ~Contains(item, "=") THEN acc
    ELSE query_limits_parts(acc, partition(item, "="), view)

RECURSIVE query_limits_loop(_, _, _)
query_limits_loop(acc, lines, view) ==
    IF Len(lines) = 0 THEN acc
    ELSE query_limits_loop(query_limits_item(acc, lines[1], view),
                           SubSeq(lines, 2, Len(lines)), view)

\* query_limits(query_command, key_transform): q is what the command does
\* this time, [outcome, lines]; check_output raises CalledProcessError on a
\* non-zero exit and TimeoutExpired after its timeout.
query_limits(q, view) ==
    CASE q.outcome = "fail"    -> [exc |-> "CalledProcessError", val |-> None]
      [] q.outcome = "timeout" -> [exc |-> "TimeoutExpired", val |-> None]
      [] OTHER -> [exc |-> "none", val |-> Dict(query_limits_loop(EmptyMap, q.lines, view))]

\* ------------------------------------------------------------ the commands
\* pool_command(*base_command, pool): pool is [given, name], given = FALSE
\* for None.
pool_command(base_command, pool) ==
    IF ~pool.given THEN base_command
    ELSE <<base_command[1]>> \o <<"-pool", pool.name>>
         \o SubSeq(base_command, 2, Len(base_command))

\* ------------------------------------------------------------- _query_data
\* The try statement of the two _query_data methods that call query_limits
\* (lines 68-73, 114-119): a CalledProcessError becomes a QueryError, any
\* other exception passes.  [exc, val, cmd]
Queried(query_command, resource_limits) ==
    IF resource_limits.exc = "CalledProcessError"
    THEN [exc |-> "QueryError", val |-> None, cmd |-> query_command]
    ELSE [exc |-> resource_limits.exc, val |-> resource_limits.val,
          cmd |-> query_command]

\* ConcurrencyConstraintView._query_data
ConcurrencyConstraintView_query_data(pool, q) ==
    Queried(pool_command(<<"condor_config_val", "-negotiator", "-dump", "LIMIT">>, pool),
            query_limits(q, "limit"))

\* ConcurrencyUsageView._query_data
ConcurrencyUsageView_query_data(pool, q) ==
    Queried(pool_command(<<"condor_userprio", "-negotiator", "-long">>, pool),
            query_limits(q, "usage"))

K_cpus == <<"c", "p", "u", "s">>
K_memory == <<"m", "e", "m", "o", "r", "y">>
K_disk == <<"d", "i", "s", "k">>
K_machines == <<"m", "a", "c", "h", "i", "n", "e", "s">>

\* An else branch that assigns where the code adds.
PoolResources_overwrite(acc, f, cpus, memory, disk) ==
    IF cpus.exc # "none" \/ memory.exc # "none" \/ disk.exc # "none"
    THEN [acc EXCEPT !.exc = "ValueError"]
    ELSE [exc      |-> "none",
          cpus     |-> cpus.val,
          memory   |-> memory.val,
          disk     |-> disk.val,
          machines |-> acc.machines \cup {f[4]}]

\* Lines 163-166 of PoolResources._query_data, f being the four fields of a
\* record: float() runs in the else branch, where nothing catches its
\* ValueError.  acc is [exc, cpus, memory, disk, machines].
PoolResources_add(acc, f, cpus, memory, disk) ==
    IF cpus.exc # "none" \/ memory.exc # "none" \/ disk.exc # "none"
    THEN [acc EXCEPT !.exc = "ValueError"]
    ELSE [exc      |-> "none",
          cpus     |-> acc.cpus + cpus.val,
          memory   |-> acc.memory + memory.val,
          disk     |-> acc.disk + disk.val,
          machines |-> acc.machines \cup {f[4]}]

\* Lines 158-162: f is machine_info.split(); unpacking other than four
\* fields raises the ValueError that is caught, and the record is skipped.
PoolResources_fields(acc, f) ==
    IF Len(f) # 4 THEN acc
    ELSE PoolResources_add(acc, f, float(f[1]), float(f[2]), float(f[3]))

\* One pass of the loop of PoolResources._query_data over machine_info; an
\* exception raised by an earlier pass has left the loop.
PoolResources_record(acc, machine_info) ==
    IF acc.exc # "none" THEN acc ELSE PoolResources_fields(acc, split(machine_info))

RECURSIVE PoolResources_loop(_, _)
PoolResources_loop(acc, lines) ==
    IF Len(lines) = 0 THEN acc
    ELSE PoolResources_loop(PoolResources_record(acc, lines[1]),
                            SubSeq(lines, 2, Len(lines)))

\* Lines 167-171: what the method returns after the loop gave acc.
PoolResources_return(query_command, acc) ==
    IF acc.exc # "none"
    THEN [exc |-> acc.exc, val |-> None, cmd |-> query_command]
    ELSE [exc |-> "none", cmd |-> query_command,
          val |-> Dict(Put(Put(Put(Put(EmptyMap,
                      K_cpus, acc.cpus), K_memory, acc.memory),
                      K_disk, acc.disk), K_machines, Cardinality(acc.machines)))]

PoolResources_command(pool) ==
    pool_command(<<"condor_status", "-startd", "-constraint",
                   "SlotType!=\"Dynamic\" && State=!=\"Owner\"",
                   "-af", "TotalSlotCpus", "TotalSlotMemory",
                   "TotalSlotDisk", "Machine">>, pool)

\* PoolResources._query_data: a CalledProcessError is passed over and the
\* method falls off its end, returning None.
PoolResources_query_data(pool, q) ==
    IF q.outcome = "fail"
    THEN [exc |-> "none", val |-> None, cmd |-> PoolResources_command(pool)]
    ELSE PoolResources_return(
             PoolResources_command(pool),
             PoolResources_loop([exc |-> "none", cpus |-> 0, memory |-> 0, disk |-> 0,
                                 machines |-> {}], q.lines))

\* self._query_data() of the view's class
_query_data(self, q) ==
    CASE self.kind = "limit" -> ConcurrencyConstraintView_query_data(self.pool, q)
      [] self.kind = "usage" -> ConcurrencyUsageView_query_data(self.pool, q)
      [] OTHER               -> PoolResources_query_data(self.pool, q)

\* ------------------------------------------------------------ CondorPoolView
\* A view whose expiry starts at its construction (time 1) plus max_age.
InitFresh(kind, pool, max_age) ==
    [kind |-> kind, pool |-> pool, max_age |-> max_age,
     _valid_date |-> max_age + 1, _data |-> [isNone |-> FALSE, map |-> EmptyMap]]

\* CondorPoolView.__init__: the fields of a fresh view
CondorPoolView_init(kind, pool, max_age) ==
    [kind |-> kind, pool |-> pool, max_age |-> max_age,
     _valid_date |-> 0, _data |-> Dict(EmptyMap)]

\* The test with <= for <.
IsExpiredAtEqual(valid_date, t) == valid_date <= t

\* The test of line 40, t being the value of time.time() there.
IsExpired(valid_date, t) == valid_date < t

\* The new expiry without max_age.
ForgetMaxAge(max_age, t) == t

\* new value of _valid_date (line 49), t being time.time() there
NewValidDate(max_age, t) == max_age + t

\* Lines 42-49 of _try_refresh: data is what self._query_data() gave.
Refreshed(self, data, t2) ==
    IF data.exc = "QueryError"
    THEN [self |-> self, queries |-> <<data.cmd>>, raised |-> "none",
          installed |-> FALSE]
    ELSE IF data.exc # "none"
    THEN [self |-> self, queries |-> <<data.cmd>>, raised |-> data.exc,
          installed |-> FALSE]
    ELSE [self |-> [self EXCEPT !._data = data.val,
                                !._valid_date = NewValidDate(self.max_age, t2)],
          queries |-> <<data.cmd>>, raised |-> "none", installed |-> TRUE]

\* CondorPoolView._try_refresh: t1 is time.time() at line 40, t2 at line 49,
\* q what the external command does if it is run.  The result is the view
\* after the call with what the call did: queries (the commands run), raised
\* (the exception that leaves the method) and installed (lines 48-49 ran).
_try_refresh(self, t1, t2, q) ==
    IF IsExpired(self._valid_date, t1)
    THEN Refreshed(self, _query_data(self, q), t2)
    ELSE [self |-> self, queries |-> <<>>, raised |-> "none", installed |-> FALSE]

\* self._data[item]: [exc, val]
Subscript(data, item) ==
    IF data.isNone THEN [exc |-> "TypeError", val |-> 0]
    ELSE IF item \in DOMAIN data.map THEN [exc |-> "none", val |-> data.map[item]]
    ELSE [exc |-> "KeyError", val |-> 0]

\* The result of a read: the outcome r of its _try_refresh, then the value
\* (ret: a number, keys: the keys iterated, found: the answer of `in`).
Result(r, exc, ret, keys, found) ==
    [self |-> r.self, queries |-> r.queries, installed |-> r.installed,
     raised |-> IF r.raised # "none" THEN r.raised ELSE exc,
     ret |-> ret, keys |-> keys, found |-> found]

\* return self._data[item] (line 37), r being what _try_refresh did
ReturnItem(r, item) ==
    IF r.raised # "none" THEN Result(r, "none", 0, {}, FALSE)
    ELSE Result(r, Subscript(r.self._data, item).exc,
                Subscript(r.self._data, item).val, {}, FALSE)

\* CondorPoolView.__getitem__
CondorPoolView_getitem(self, item, t1, t2, q) ==
    ReturnItem(_try_refresh(self, t1, t2, q), item)

\* return len(self._data) (line 29)
ReturnLen(r) ==
    IF r.raised # "none" THEN Result(r, "none", 0, {}, FALSE)
    ELSE IF r.self._data.isNone THEN Result(r, "TypeError", 0, {}, FALSE)
    ELSE Result(r, "none", Cardinality(DOMAIN r.self._data.map), {}, FALSE)

\* __len__ without the call of _try_refresh.
LenWithoutRefresh(self, t1, t2, q) ==
    ReturnLen([self |-> self, queries |-> <<>>, raised |-> "none", installed |-> FALSE])

\* CondorPoolView.__len__
CondorPoolView_len(self, t1, t2, q) == ReturnLen(_try_refresh(self, t1, t2, q))

\* return iter(self._data) (line 33)
ReturnIter(r) ==
    IF r.raised # "none" THEN Result(r, "none", 0, {}, FALSE)
    ELSE IF r.self._data.isNone THEN Result(r, "TypeError", 0, {}, FALSE)
    ELSE Result(r, "none", 0, DOMAIN r.self._data.map, FALSE)

\* CondorPoolView.__iter__
CondorPoolView_iter(self, t1, t2, q) == ReturnIter(_try_refresh(self, t1, t2, q))

\* ---------------------------------------------- ConcurrencyConstraintView
\* resource.split('.')[0]
RootResource(resource) == partition(resource, ".")[1]

\* An except clause that raises again, whatever the resource.
NoParentGroup(r, resource) == r

\* The except clause of the two __getitem__ of adapter.py (lines 46-50,
\* 101-104): r is what super().__getitem__ did; on a KeyError a resource
\* with a '.' is looked up by its parent group.
ParentGroup(r, resource) ==
    IF r.raised = "KeyError" /\ Contains(resource, ".")
    THEN [r EXCEPT !.raised = Subscript(r.self._data, RootResource(resource)).exc,
                   !.ret = Subscript(r.self._data, RootResource(resource)).val]
    ELSE r

\* ConcurrencyConstraintView.__getitem__
ConcurrencyConstraintView_getitem(self, resource, t1, t2, q) ==
    ParentGroup(CondorPoolView_getitem(self, resource, t1, t2, q), resource)

\* ConcurrencyUsageView.__getitem__
ConcurrencyUsageView_getitem(self, resource, t1, t2, q) ==
    ParentGroup(CondorPoolView_getitem(self, replace(resource, ".", "_"), t1, t2, q),
                resource)

\* self[key] of the view's class
getitem(self, key, t1, t2, q) ==
    CASE self.kind = "limit" -> ConcurrencyConstraintView_getitem(self, key, t1, t2, q)
      [] self.kind = "usage" -> ConcurrencyUsageView_getitem(self, key, t1, t2, q)
      [] OTHER               -> CondorPoolView_getitem(self, key, t1, t2, q)

\* Mapping.__contains__ (collections.abc, inherited), r being what
\* self[key] did: a KeyError answers False.
Answer(r) ==
    IF r.raised = "KeyError" THEN [r EXCEPT !.raised = "none", !.ret = 0, !.found = FALSE]
    ELSE IF r.raised = "none" THEN [r EXCEPT !.ret = 0, !.found = TRUE]
    ELSE r

contains(self, key, t1, t2, q) == Answer(getitem(self, key, t1, t2, q))

S_LIMIT_EQ == <<"_", "L", "I", "M", "I", "T", " ", "=", " ">>

\* An except clause that names CalledProcessError alone.
CaughtExitOnly == {"CalledProcessError"}

\* The exception types the except clause of _set_constraint names (line 83).
Caught == {"CalledProcessError", "TimeoutExpired"}

\* The exception a check_call raises for what the command does.
check_call(outcome) ==
    CASE outcome = "fail"    -> "CalledProcessError"
      [] outcome = "timeout" -> "TimeoutExpired"
      [] OTHER               -> "none"

\* The two commands in the other order.
CommandsRunFlushFirst(reconfig_command, flush_command, o1) ==
    IF o1 = "ok" THEN <<flush_command, reconfig_command>> ELSE <<flush_command>>

\* The commands _set_constraint runs: the second only after the first
\* returned without raising.
CommandsRun(reconfig_command, flush_command, o1) ==
    IF check_call(o1) = "none" THEN <<reconfig_command, flush_command>>
    ELSE <<reconfig_command>>

\* ConcurrencyConstraintView._set_constraint: o1, o2 are what the two
\* commands do.  [self, cmds, raised]
_set_constraint(self, resource, constraint, o1, o2) ==
    LET reconfig_command ==
            pool_command(<<"condor_config_val", "-negotiator", "-rset",
                           Join(resource \o S_LIMIT_EQ \o constraint)>>, self.pool)
        flush_command == pool_command(<<"condor_reconfig", "-negotiator">>, self.pool)
        exc  == IF check_call(o1) # "none" THEN check_call(o1) ELSE check_call(o2)
    IN  [self   |-> IF exc = "none" THEN [self EXCEPT !._valid_date = 0] ELSE self,
         cmds   |-> CommandsRun(reconfig_command, flush_command, o1),
         raised |-> IF exc \in Caught THEN "none" ELSE exc]

\* __setitem__ and __delitem__ without their last line.
NoInvalidate(w) == w

\* The assignment that follows _set_constraint in __setitem__ and
\* __delitem__ (lines 54 and 58), reached when it has not raised.
Invalidate(w) ==
    IF w.raised = "none" THEN [w EXCEPT !.self._valid_date = 0] ELSE w

\* A conversion that rounds halves up.
RoundedInt(halves) == (halves + 1) \div 2

\* int(value) of a float given in halves (value = halves / 2, not negative)
int(halves) == halves \div 2

\* ConcurrencyConstraintView.__setitem__
ConcurrencyConstraintView_setitem(self, key, value, o1, o2) ==
    Invalidate(_set_constraint(self, key, str(int(value)), o1, o2))

\* ConcurrencyConstraintView.__delitem__
ConcurrencyConstraintView_delitem(self, key, o1, o2) ==
    Invalidate(_set_constraint(self, key, <<>>, o1, o2))

\* -------------------------------------------------------------- the inputs
L_GPU7 == <<"G", "P", "U", "_", "L", "I", "M", "I", "T", " ", "=", " ", "7">>
L_gpu5 == <<"g", "p", "u", "_", "L", "I", "M", "I", "T", " ", "=", " ", "5">>
L_gpua2 == <<"g", "p", "u", ".", "a", "_", "L", "I", "M", "I", "T", " ", "=", " ", "2">>
L_other == <<"O", "T", "H", "E", "R", "_", "A", "T", "T", "R", " ", "=", " ", "x">>
L_cpux == <<"c", "p", "u", "_", "L", "I", "M", "I", "T", " ", "=", " ", "x">>
L_noeq == <<"g", "p", "u", "_", "L", "I", "M", "I", "T", " ", "5">>
U_gpu3 ==
    <<"C", "o", "n", "c", "u", "r", "r", "e", "n", "c", "y", "L", "i", "m", "i", "t", "_",
      "g", "p", "u", " ", "=", " ", "3">>
U_gpua1 ==
    <<"C", "o", "n", "c", "u", "r", "r", "e", "n", "c", "y", "L", "i", "m", "i", "t", "_",
      "g", "p", "u", "_", "a", " ", "=", " ", "1">>
U_prio == <<"P", "r", "i", "o", "r", "i", "t", "y", " ", "=", " ", "5">>
U_lower ==
    <<"c", "o", "n", "c", "u", "r", "r", "e", "n", "c", "y", "l", "i", "m", "i", "t", "_",
      "g", "p", "u", " ", "=", " ", "9">>
R_h1 == <<"4", " ", "8", " ", "1", "0", "0", " ", "h", "1">>
R_h2 == <<"2", " ", "4", " ", "5", "0", " ", "h", "2">>
R_short == <<"4", " ", "8", " ", "h", "3">>
R_undef ==
    <<"u", "n", "d", "e", "f", "i", "n", "e", "d", " ", "8", " ", "1", "0", "0", " ", "h", "1">>
L_gpu9 == <<"g", "p", "u", "_", "l", "i", "m", "i", "t", "=", "9">>
L_gpux == <<" ", "g", "p", "u", "_", "L", "I", "M", "I", "T", " ", "=", "x", "=", "1">>
U_gpu0 ==
    <<"C", "o", "n", "c", "u", "r", "r", "e", "n", "c", "y", "L", "i", "m", "i", "t", "_",
      "g", "p", "u", "=", " ", "0", " ">>
K_gpu == <<"g", "p", "u">>
K_gpua == <<"g", "p", "u", ".", "a">>
K_cpu == <<"c", "p", "u">>
K_GPU == <<"G", "P", "U">>

\* The outputs (already split into lines) the external commands may print.
Outputs(kind) ==
    CASE kind = "limit" -> {<<L_gpu5, L_other, L_cpux>>, <<L_GPU7, L_gpua2, L_noeq>>}
      [] kind = "usage" -> {<<U_gpu3, U_prio>>, <<U_gpu3, U_gpua1, U_lower>>}
      [] OTHER          -> {<<R_h1, R_h1>>, <<R_h1, R_h2, R_short>>, <<R_undef, R_h2>>}

\* What a query command may do when it is run.  check_output of
\* PoolResources._query_data is given no timeout, so TimeoutExpired is no
\* outcome of it.
Responses(kind) ==
    {[outcome |-> "ok", lines |-> o] : o \in Outputs(kind)}
    \cup {[outcome |-> "fail", lines |-> <<>>]}
    \cup (IF kind = "capacity" THEN {} ELSE {[outcome |-> "timeout", lines |-> <<>>]})

\* What an administrative command may do.
Outcomes == {"ok", "fail", "timeout"}

\* The keys the caller asks for.
Keys(kind) ==
    CASE kind = "limit" -> {K_gpu, K_gpua, K_cpu}
      [] kind = "usage" -> {K_gpu, K_gpua, K_cpu}
      [] OTHER          -> {K_cpus, K_machines, K_gpu}

\* The views constructed: each class, with and without a pool.
Views ==
    {[kind |-> "limit", pool |-> [given |-> TRUE, name |-> "head"]],
     [kind |-> "usage", pool |-> [given |-> FALSE, name |-> ""]],
     [kind |-> "capacity", pool |-> [given |-> TRUE, name |-> "head"]]}

\* The keys the caller writes.
WriteKeys == {K_gpu, K_gpua}

\* ---------------------------------------------------------------- the state
VARIABLES
    self,   \* the view: kind, pool, max_age, _valid_date, _data
    now,    \* the last value time.time() returned
    last,   \* the last operation: its arguments, the times it read (t at
            \* line 40, t2 at line 49), what it did and returned,
            \* and, of a read, what it started from (pre)
    ghost,  \* history: accessed, whether the view has been read;
            \* fresh_since, the time of the last successful refresh (0 for
            \* none); written, whether a write has followed that refresh
    store,  \* the negotiator's configuration, where a specification has
            \* one answer the commands (NoStore where the commands' output
            \* is any of Outputs)
    threads \* where each thread of a multi-threaded caller is in the
            \* methods of the view (NoThreads for a single caller)

vars == <<self, now, last, ghost, store, threads>>

\* No configuration is modelled: the commands print any of Outputs.
NoStore == [cfg |-> EmptyMap, wrote |-> <<>>, key |-> <<>>]

\* A single caller, each operation a step.
NoThreads == <<>>

Reads == {"get", "len", "iter", "contains"}
Writes == {"set", "del"}

Min(a, b) == IF a < b THEN a ELSE b

NoOp ==
    [op |-> "none", key |-> <<>>, value |-> 0, t |-> 0, t2 |-> 0,
     q |-> [outcome |-> "none", lines |-> <<>>], queries |-> <<>>,
     cmds |-> <<>>, couts |-> <<>>, raised |-> "none", ret |-> 0, keys |-> {},
     found |-> FALSE, installed |-> FALSE,
     pre |-> [_valid_date |-> 0, fresh_since |-> 0, written |-> FALSE,
              after_write |-> FALSE, first |-> FALSE]]

\* What a read starts from: the expiry, the history, whether the operation
\* before it was a write and whether it is the first read of the view.
Pre == [_valid_date |-> self._valid_date, fresh_since |-> ghost.fresh_since,
        written |-> ghost.written, after_write |-> last.op \in Writes,
        first |-> ~ghost.accessed]

Init ==
    /\ \E v \in Views, max_age \in (-1)..MaxAge :
           self = CondorPoolView_init(v.kind, v.pool, max_age)
    /\ now = 1
    /\ last = NoOp
    /\ ghost = [accessed |-> FALSE, fresh_since |-> 0, written |-> FALSE]
    /\ store = NoStore
    /\ threads = NoThreads

\* A read operation op(key) whose handler gave r, time.time() having
\* returned t1 in the freshness test and t2 after the query.
Read(op, key, r, t1, t2, q) ==
    LET queried == Len(r.queries) > 0
        done    == queried /\ r.installed /\ q.outcome = "ok"
    IN  /\ self' = r.self
        /\ now' = IF queried THEN t2 ELSE t1
        /\ last' = [op |-> op, key |-> key, value |-> 0, t |-> t1,
                    t2 |-> IF queried THEN t2 ELSE t1,
                    q |-> IF queried THEN q ELSE NoOp.q,
                    queries |-> r.queries, cmds |-> <<>>, couts |-> <<>>,
                    raised |-> r.raised, ret |-> r.ret, keys |-> r.keys,
                    found |-> r.found, installed |-> r.installed, pre |-> Pre]
        /\ ghost' = [accessed |-> TRUE,
                     fresh_since |-> IF done THEN t2 ELSE ghost.fresh_since,
                     written |-> IF done THEN FALSE ELSE ghost.written]
        /\ UNCHANGED threads

\* time.time() of line 49, read when the query has returned its output:
\* the time the query took has passed.  (After any other outcome the clock
\* is not read again, and Tick lets the same time pass.)
Times2(t1, q) ==
    IF q.outcome = "ok" THEN t1..Min(t1 + MaxQueryTime, MaxTime) ELSE {t1}

\* What the external command does in an access at t1: it is run only when
\* the freshness test of line 40 says so, and then does any of Responses.
Asked(t1) ==
    IF IsExpired(self._valid_date, t1) THEN Responses(self.kind) ELSE {NoOp.q}

\* Time passes between two operations.
Tick ==
    /\ now < MaxTime
    /\ now' = now + 1
    /\ UNCHANGED <<self, last, ghost, store, threads>>

\* view[key]
Get ==
    \E key \in Keys(self.kind), q \in Asked(now) : \E t2 \in Times2(now, q) :
        \E r \in {getitem(self, key, now, t2, q)} : Read("get", key, r, now, t2, q)
            /\ UNCHANGED store

\* len(view)
Length ==
    \E q \in Asked(now) : \E t2 \in Times2(now, q) :
        \E r \in {CondorPoolView_len(self, now, t2, q)} : Read("len", <<>>, r, now, t2, q)
            /\ UNCHANGED store

\* iter(view)
Iterate ==
    \E q \in Asked(now) : \E t2 \in Times2(now, q) :
        \E r \in {CondorPoolView_iter(self, now, t2, q)} : Read("iter", <<>>, r, now, t2, q)
            /\ UNCHANGED store

\* key in view
In ==
    \E key \in Keys(self.kind), q \in Asked(now) : \E t2 \in Times2(now, q) :
        \E r \in {contains(self, key, now, t2, q)} : Read("contains", key, r, now, t2, q)
            /\ UNCHANGED store

\* What the two administrative commands do: the second is run only when the
\* first has returned normally.
CommandOutcomes ==
    {<<"ok", o2>> : o2 \in Outcomes} \cup {<<o1>> : o1 \in Outcomes \ {"ok"}}

\* A write operation whose handler gave w, the commands having done o.
Write(op, key, value, w, o) ==
    /\ self.kind = "limit"
    /\ self' = w.self
    /\ now' = now
    /\ last' = [NoOp EXCEPT !.op = op, !.key = key, !.value = value, !.t = now,
                            !.t2 = now,
                            !.cmds = w.cmds, !.couts = SubSeq(o, 1, Len(w.cmds)),
                            !.raised = w.raised]
    /\ ghost' = [ghost EXCEPT !.written = ghost.fresh_since > 0]
    /\ UNCHANGED threads

\* view[key] = value
SetItem ==
    \E key \in WriteKeys, value \in 0..MaxHalves, o \in CommandOutcomes :
        \E w \in {ConcurrencyConstraintView_setitem(self, key, value, o[1], o[Len(o)])} :
            Write("set", key, value, w, o) /\ UNCHANGED store

\* del view[key]
DelItem ==
    \E key \in WriteKeys, o \in CommandOutcomes :
        \E w \in {ConcurrencyConstraintView_delitem(self, key, o[1], o[Len(o)])} :
            Write("del", key, 0, w, o) /\ UNCHANGED store

Next == Tick \/ Get \/ Length \/ Iterate \/ In \/ SetItem \/ DelItem

Spec == Init /\ [][Next]_vars

\* ------------------------------------------------- every output, one lookup
\* The lines a command may print, one by one.
Lines(kind) ==
    CASE kind = "limit" ->
             {L_GPU7, L_gpu5, L_gpua2, L_other, L_cpux, L_noeq, L_gpu9, L_gpux}
      [] kind = "usage" -> {U_gpu3, U_gpua1, U_prio, U_lower, U_gpu0}
      [] OTHER          -> {R_h1, R_h2, R_short, R_undef}

\* Every output of at most MaxLines of these lines.
Texts(kind) == UNION {[1..n -> Lines(kind)] : n \in 0..MaxLines}

\* A view just constructed, and the first view[key] its caller is about to
\* make (last.key), with the output the query command will print (last.q).
InitInputs ==
    /\ \E v \in Views :
           /\ self = CondorPoolView_init(v.kind, v.pool, MaxAge)
           /\ \E key \in Keys(v.kind), lines \in Texts(v.kind) :
                  last = [NoOp EXCEPT !.key = key,
                                      !.q = [outcome |-> "ok", lines |-> lines]]
    /\ now = 1
    /\ ghost = [accessed |-> FALSE, fresh_since |-> 0, written |-> FALSE]
    /\ store = NoStore
    /\ threads = NoThreads

\* The first view[key]: the view is expired (line 40), the query prints
\* last.q.lines, which _query_data parses, and the key is looked up.
Lookup ==
    /\ last.op = "none"
    /\ \E r \in {getitem(self, last.key, now, now, last.q)} :
           Read("get", last.key, r, now, now, last.q)
    /\ UNCHANGED store

SpecInputs == InitInputs /\ [][Lookup]_vars

\* ------------------------------------- a negotiator that keeps what is set
\* The commands of ConcurrencyConstraintView act on the configuration of
\* the negotiator (store.cfg): a successful -rset makes its assignment,
\* condor_reconfig changes no value, and -dump prints the configuration.
\* Names are kept as they are written.
S_EQ == <<" ", "=", " ">>

\* The resources the caller writes and reads here.
StoreKeys == {K_gpua, K_GPU}

\* The assignments '<name> = <value>' an -rset argument may make.
Assignments ==
    {<<key \o <<"_", "L", "I", "M", "I", "T">>, value>> :
        key \in StoreKeys, value \in {<<>>} \cup {str(n) : n \in 0..MaxHalves}}

\* The configuration after -rset arg (the last word of reconfig_command).
Rset(cfg, arg) ==
    LET a == CHOOSE a \in Assignments : Join(a[1] \o S_EQ \o a[2]) = arg
    IN  Put(cfg, a[1], a[2])

\* The names of a configuration in the order they are printed.
RECURSIVE Printed(_)
Printed(names) ==
    IF names = {} THEN <<>>
    ELSE <<CHOOSE n \in names : TRUE>>
         \o Printed(names \ {CHOOSE n \in names : TRUE})

\* The output of -dump LIMIT: a line '<name> = <value>' for each name.
Dump(cfg) ==
    [i \in 1..Cardinality(DOMAIN cfg) |->
        Printed(DOMAIN cfg)[i] \o S_EQ \o cfg[Printed(DOMAIN cfg)[i]]]

\* The negotiator after the commands cmds of a write did couts (a command
\* that failed or timed out changed nothing); wrote keeps the write.
Applied(st, cmds, couts, wrote) ==
    [cfg   |-> IF couts[1] = "ok" THEN Rset(st.cfg, cmds[1][Len(cmds[1])]) ELSE st.cfg,
     wrote |-> wrote,
     key   |-> st.key]

\* A Limit View just constructed on a negotiator whose configuration holds
\* no limit, or the limit of the group gpu; store.key is the resource its
\* caller works with.
InitStore ==
    /\ self = CondorPoolView_init("limit", [given |-> TRUE, name |-> "head"], MaxAge)
    /\ now = 1
    /\ last = NoOp
    /\ ghost = [accessed |-> FALSE, fresh_since |-> 0, written |-> FALSE]
    /\ \E cfg \in {EmptyMap, Put(EmptyMap, K_gpu \o <<"_", "L", "I", "M", "I", "T">>,
                                  <<"5">>)} :
           \E key \in StoreKeys : store = [cfg |-> cfg, wrote |-> <<>>, key |-> key]
    /\ threads = NoThreads

\* What the query command does in an access at t1 here: it prints the
\* configuration in use, or fails.
StoreAsked(t1) ==
    IF IsExpired(self._valid_date, t1)
    THEN {[outcome |-> "ok", lines |-> Dump(store.cfg)],
          [outcome |-> "fail", lines |-> <<>>]}
    ELSE {NoOp.q}

\* view[key]; the write is remembered for the get that follows it.
StoreGet ==
    \E key \in {store.key}, q \in StoreAsked(now) : \E t2 \in Times2(now, q) :
        \E r \in {getitem(self, key, now, t2, q)} :
            /\ Read("get", key, r, now, t2, q)
            /\ store' = [store EXCEPT !.wrote = IF last.op \in Writes THEN @ ELSE <<>>]

\* view[key] = value
StoreSet ==
    \E key \in {store.key}, value \in 0..MaxHalves, o \in CommandOutcomes :
        \E w \in {ConcurrencyConstraintView_setitem(self, key, value, o[1], o[Len(o)])} :
            /\ Write("set", key, value, w, o)
            /\ store' = Applied(store, w.cmds, SubSeq(o, 1, Len(w.cmds)),
                                [op |-> "set", key |-> key, value |-> value,
                                 ok |-> o = <<"ok", "ok">>])

\* del view[key]
StoreDel ==
    \E key \in {store.key}, o \in CommandOutcomes :
        \E w \in {ConcurrencyConstraintView_delitem(self, key, o[1], o[Len(o)])} :
            /\ Write("del", key, 0, w, o)
            /\ store' = Applied(store, w.cmds, SubSeq(o, 1, Len(w.cmds)),
                                [op |-> "del", key |-> key, value |-> 0,
                                 ok |-> o = <<"ok", "ok">>])

NextStore == Tick \/ StoreGet \/ StoreSet \/ StoreDel

SpecStore == InitStore /\ [][NextStore]_vars

\* ------------------------------------------------ callers in several threads
\* Threads of the host call view[key] and view[key] = value on one Limit
\* View.  Nothing in the view takes a lock, so a thread may be suspended
\* between any two statements: each step below is one statement that reads
\* or writes a field of the view, or runs one external command.  pc names
\* the line the thread executes next (l40..l49 of query_view.py, l37 its
\* line 37, l82..l58 of adapter.py).
Threads == {1, 2}

Idle ==
    [pc |-> "idle", data |-> None, value |-> 0, ok |-> FALSE, ret |-> 0,
     raised |-> "none", mixed |-> FALSE]

\* Some other thread has run line 48 and not yet line 49: _data is the
\* result of its query while _valid_date is the expired one it started from.
BetweenSwap(t) ==
    \E u \in Threads \ {t} :
        /\ threads[u].pc = "l49"
        /\ self._data = threads[u].data
        /\ IsExpired(self._valid_date, now)

InitThreads ==
    /\ self = CondorPoolView_init("limit", [given |-> TRUE, name |-> "head"], MaxAge)
    /\ now = 1
    /\ last = NoOp
    /\ ghost = [accessed |-> FALSE, fresh_since |-> 0, written |-> FALSE]
    /\ store = [cfg   |-> Put(EmptyMap, K_gpu \o <<"_", "L", "I", "M", "I", "T">>, <<"5">>),
                wrote |-> <<>>, key |-> K_gpua]
    /\ threads = [t \in Threads |-> Idle]

\* view[key] is called; line 40 of _try_refresh: the test of _valid_date.
T_Test(t) ==
    /\ threads[t].pc = "idle"
    /\ threads' = [threads EXCEPT ![t] =
           [Idle EXCEPT !.pc = IF IsExpired(self._valid_date, now) THEN "l43" ELSE "l37",
                        !.mixed = BetweenSwap(t)]]
    /\ UNCHANGED <<self, now, last, ghost, store>>

\* Line 43: data = self._query_data(); the command prints the
\* configuration or fails (QueryError: lines 44-45, and the method returns).
T_Query(t) ==
    /\ threads[t].pc = "l43"
    /\ \E q \in {[outcome |-> "ok", lines |-> Dump(store.cfg)],
                  [outcome |-> "fail", lines |-> <<>>]} :
           \E data \in {_query_data(self, q)} :
               threads' = [threads EXCEPT
                   ![t].pc = IF data.exc = "QueryError" THEN "l37" ELSE "l48",
                   ![t].data = data.val]
    /\ UNCHANGED <<self, now, last, ghost, store>>

\* Line 48: self._data = data
T_AssignData(t) ==
    /\ threads[t].pc = "l48"
    /\ self' = [self EXCEPT !._data = threads[t].data]
    /\ threads' = [threads EXCEPT ![t].pc = "l49"]
    /\ UNCHANGED <<now, last, ghost, store>>

\* Line 49: self._valid_date = self.max_age + time.time()
T_AssignDate(t) ==
    /\ threads[t].pc = "l49"
    /\ self' = [self EXCEPT !._valid_date = NewValidDate(self.max_age, now)]
    /\ threads' = [threads EXCEPT ![t].pc = "l37"]
    /\ UNCHANGED <<now, last, ghost, store>>

\* Line 37, return self._data[item], with the except clause of
\* ConcurrencyConstraintView.__getitem__.
T_Return(t) ==
    /\ threads[t].pc = "l37"
    /\ \E r \in {ParentGroup(
                     ReturnItem([self |-> self, queries |-> <<>>, raised |-> "none",
                                 installed |-> FALSE], store.key), store.key)} :
           threads' = [threads EXCEPT
               ![t] = [Idle EXCEPT !.ret = r.ret, !.raised = r.raised,
                                   !.mixed = threads[t].mixed \/ BetweenSwap(t)]]
    /\ UNCHANGED <<self, now, last, ghost, store>>

\* view[key] = value is called; line 81 of _set_constraint: the set-limit
\* command, after which line 82 follows, or the except clause and line 58.
T_Set(t) ==
    /\ threads[t].pc = "idle"
    /\ \E value \in 1..MaxHalves, o1 \in Outcomes :
           /\ threads' = [threads EXCEPT
                  ![t] = [Idle EXCEPT
                             !.pc = IF check_call(o1) = "none" THEN "l82" ELSE "l58",
                             !.value = value]]
           /\ store' = [store EXCEPT
                  !.wrote = <<>>,
                  !.cfg = IF o1 = "ok"
                          THEN Rset(@, Join(store.key \o S_LIMIT_EQ \o str(int(value))))
                          ELSE @]
    /\ UNCHANGED <<self, now, last, ghost>>

\* Line 82: the reload command.
T_Flush(t) ==
    /\ threads[t].pc = "l82"
    /\ \E o2 \in Outcomes :
           threads' = [threads EXCEPT
               ![t].pc = IF check_call(o2) = "none" THEN "l86" ELSE "l58",
               ![t].ok = check_call(o2) = "none"]
    /\ UNCHANGED <<self, now, last, ghost, store>>

\* Line 86: self._valid_date = 0
T_Else(t) ==
    /\ threads[t].pc = "l86"
    /\ self' = [self EXCEPT !._valid_date = 0]
    /\ threads' = [threads EXCEPT ![t].pc = "l58"]
    /\ UNCHANGED <<now, last, ghost, store>>

\* Line 58 of __setitem__: self._valid_date = 0, and the call returns.
T_Invalidate(t) ==
    /\ threads[t].pc = "l58"
    /\ self' = [self EXCEPT !._valid_date = 0]
    /\ threads' = [threads EXCEPT ![t] = Idle]
    /\ store' = [store EXCEPT
           !.wrote = [op |-> "set", key |-> store.key, value |-> threads[t].value,
                      ok |-> threads[t].ok]]
    /\ UNCHANGED <<now, last, ghost>>

NextThreads ==
    \/ Tick
    \/ \E t \in Threads :
           \/ T_Test(t) \/ T_Query(t) \/ T_AssignData(t) \/ T_AssignDate(t)
           \/ T_Return(t)
           \/ T_Set(t) \/ T_Flush(t) \/ T_Else(t) \/ T_Invalidate(t)

SpecThreads == InitThreads /\ [][NextThreads]_vars

\* ------------------------------------------------------------- properties
\* The read op(key) of a view whose cache needs no refresh at time t.
FromCache(view, op, key, t) ==
    CASE op = "get"      -> getitem([view EXCEPT !._valid_date = t], key, t, t, NoOp.q)
      [] op = "contains" -> contains([view EXCEPT !._valid_date = t], key, t, t, NoOp.q)
      [] op = "len"      -> CondorPoolView_len([view EXCEPT !._valid_date = t], t, t, NoOp.q)
      [] OTHER           -> CondorPoolView_iter([view EXCEPT !._valid_date = t], t, t, NoOp.q)

\* The last operation answered as r does.
Answers(l, r) ==
    /\ l.raised = r.raised
    /\ l.ret = r.ret
    /\ l.keys = r.keys
    /\ l.found = r.found

\* The exceptions a caller of a mapping expects: none, or the missing key.
Normal == {"none", "KeyError"}

\* C1 (stale serving, every view): a read whose refresh query exits
\* non-zero leaves _data as it was, raises nothing for the failure, and
\* answers from that unchanged data.
C1_StaleServing ==
    [][(last'.op \in Reads /\ last'.q.outcome = "fail")
       => /\ self'._data = self._data
          /\ last'.raised \in Normal
          /\ Answers(last', FromCache(self, last'.op, last'.key, last'.t))]_vars

\* C2 (capacity view): a failing capacity query is a refresh failure: the
\* cached capacity mapping and the expiry stay as they were, and the read
\* still finds the prior mapping.
C2_CapacityQueryFailure ==
    [][(self.kind = "capacity" /\ last'.op \in Reads /\ last'.q.outcome = "fail")
       => /\ self'._data = self._data
          /\ self'._valid_date = self._valid_date
          /\ last'.raised # "TypeError"]_vars

\* C3 (limit and usage views): a query that times out is caught at the
\* refresh boundary: nothing but the mapping's own missing-key condition
\* reaches the caller, and the cached data stays in place.
C3_TimeoutCaught ==
    [][(self.kind \in {"limit", "usage"} /\ last'.op \in Reads
        /\ last'.q.outcome = "timeout")
       => /\ last'.raised \in Normal
          /\ self'._data = self._data]_vars

\* C4 (write-then-invalidate): after every set or delete, whatever its
\* commands did, the expiry is reset, and the read that follows next runs a
\* query, also within max_age of the last successful refresh.
C4_WriteInvalidates ==
    /\ last.op \in Writes => self._valid_date = 0
    /\ (last.op \in Reads /\ last.pre.after_write) => Len(last.queries) = 1

\* A read that follows a write within max_age of the last successful
\* refresh, and queries.
C4_Witness ==
    /\ last.op \in Reads /\ last.pre.after_write
    /\ last.pre.fresh_since > 0
    /\ last.t - last.pre.fresh_since < self.max_age
    /\ Len(last.queries) = 1

\* cmd sets '<key>_LIMIT' to the integer part of the value (given in halves).
IsSetLimit(cmd, key, halves) ==
    /\ cmd[1] = "condor_config_val"
    /\ cmd[Len(cmd) - 1] = "-rset"
    /\ cmd[Len(cmd)] = Join(key \o S_LIMIT_EQ \o str(halves \div 2))

\* cmd makes the negotiator reload its configuration.
IsReload(cmd) == cmd[1] = "condor_reconfig" /\ cmd[Len(cmd)] = "-negotiator"

\* C5 as stated: every set issues the two commands, set-limit, then reload.
C5_TwoCommandsAlways ==
    last.op = "set"
    => /\ Len(last.cmds) = 2
       /\ IsSetLimit(last.cmds[1], last.key, last.value)
       /\ IsReload(last.cmds[2])

\* C5 (write command sequence), amended: every set issues the set-limit
\* command first; the reload command follows exactly when the set-limit
\* command has succeeded, and is the last one; no reload comes before the
\* set-limit command.
C5_CommandSequence ==
    last.op = "set"
    => /\ Len(last.cmds) >= 1
       /\ IsSetLimit(last.cmds[1], last.key, last.value)
       /\ last.couts[1] = "ok" => (Len(last.cmds) = 2 /\ IsReload(last.cmds[2]))
       /\ last.couts[1] # "ok" => Len(last.cmds) = 1

\* set("gpu.a", 1.0) whose set-limit command succeeds and whose reload fails.
C5_Witness ==
    /\ last.op = "set" /\ last.key = K_gpua /\ last.value = 2
    /\ last.couts = <<"ok", "fail">>
    /\ last.cmds[1][Len(last.cmds[1])] = "gpu.a_LIMIT = 1"
    /\ last.cmds[2][1] = "condor_reconfig"

\* C6 (best-effort write): a set or delete one of whose commands exits
\* non-zero or times out returns normally.
C6_BestEffortWrite ==
    (last.op \in Writes /\ \E i \in 1..Len(last.couts) : last.couts[i] # "ok")
    => last.raised = "none"

\* A delete whose reload command timed out, returned normally.
C6_Witness ==
    last.op = "del" /\ last.couts = <<"ok", "timeout">> /\ last.raised = "none"

\* C7 (first access): the first read of a fresh view runs exactly one query,
\* whatever max_age is.
C7_FirstAccessRefreshes ==
    (last.op \in Reads /\ last.pre.first) => Len(last.queries) = 1

\* The first read of a view with a negative max_age, which queried and
\* installed the result.
C7_Witness ==
    /\ last.op \in Reads /\ last.pre.first /\ self.max_age < 0
    /\ Len(last.queries) = 1 /\ last.installed

\* The read started less than max_age after the last successful refresh,
\* with no write since.
WhileFresh ==
    /\ last.op \in Reads
    /\ self.max_age > 0
    /\ last.pre.fresh_since > 0 /\ ~last.pre.written
    /\ last.t - last.pre.fresh_since < self.max_age

\* C8 (no refresh while fresh): with max_age > 0 and no write since, a read
\* less than max_age after the last successful refresh runs no query and
\* answers from the cache, which it leaves as it is.
C8_NoRefreshWhileFresh ==
    WhileFresh
    => /\ last.queries = <<>>
       /\ self._valid_date = last.pre._valid_date
       /\ Answers(last, FromCache(self, last.op, last.key, last.t))

\* A get later than the refresh, still fresh, answered without a query.
C8_Witness ==
    /\ WhileFresh /\ last.op = "get" /\ last.t > last.pre.fresh_since
    /\ last.queries = <<>> /\ last.raised = "none"

\* The query of the last read returned output that was parsed.
Succeeded ==
    /\ Len(last.queries) = 1
    /\ last.q.outcome = "ok"
    /\ last.raised \in Normal

\* C9 as stated: a read at now >= expiry, equality included, runs exactly
\* one query, and on success the expiry is now + max_age (now being any
\* time from the start of the read to the end of its query).
C9_RefreshAtOrAfterExpiry ==
    (last.op \in Reads /\ last.t >= last.pre._valid_date)
    => /\ Len(last.queries) = 1
       /\ Succeeded => \E n \in last.t..last.t2 : self._valid_date = n + self.max_age

\* C9 (refresh after expiry), amended: a read at now > expiry runs exactly
\* one query and a read at now <= expiry runs none; on success the data is
\* replaced by the query's result and the expiry is max_age plus the time
\* read after the query returned, which is not before now.
C9_RefreshAfterExpiry ==
    last.op \in Reads
    => /\ last.t > last.pre._valid_date => Len(last.queries) = 1
       /\ last.t <= last.pre._valid_date => last.queries = <<>>
       /\ Succeeded
          => /\ last.installed
             /\ self._data = _query_data(self, last.q).val
             /\ self._valid_date = self.max_age + last.t2
             /\ last.t2 >= last.t

\* A read after expiry whose query took time: the expiry counts from the
\* end of the query.
C9_Witness ==
    /\ last.op \in Reads /\ last.pre._valid_date > 0
    /\ last.t > last.pre._valid_date
    /\ Succeeded /\ last.t2 > last.t
    /\ self._valid_date = self.max_age + last.t2

\* C10 (every read checks freshness first): len, iter and `in` run a query
\* exactly when the cache has expired, as get does, and answer from the
\* data the view holds after that check.
C10_ReadsCheckFreshness ==
    last.op \in {"len", "iter", "contains"}
    => /\ Len(last.queries) = 1 <=> last.pre._valid_date < last.t
       /\ Answers(last, FromCache(self, last.op, last.key, now))
          \/ last.raised \notin Normal

\* A len of an expired cache that counted the two entries its own query
\* installed.
C10_Witness ==
    /\ last.op = "len" /\ last.pre._valid_date > 0
    /\ last.installed /\ last.raised = "none"
    /\ last.ret = 2 /\ DOMAIN self._data.map = {<<"G", "P", "U">>, K_gpua}

\* The segment of key before its first '.'.
Top(key) == SubSeq(key, 1, Find(key, ".") - 1)

\* C11 (Limit View, parent-group fallback): get(key) returns data[key] when
\* key is present; otherwise, for a key with a '.', data[top], top being the
\* segment before the first '.'; it raises not-found exactly when key is
\* absent and has no '.' or its top segment is absent too.
C11_ParentGroupFallback ==
    (self.kind = "limit" /\ last.op = "get")
    => /\ ~self._data.isNone
       /\ last.key \in DOMAIN self._data.map
          => (last.raised = "none" /\ last.ret = self._data.map[last.key])
       /\ (/\ last.key \notin DOMAIN self._data.map
           /\ Contains(last.key, ".")
           /\ Top(last.key) \in DOMAIN self._data.map)
          => (last.raised = "none" /\ last.ret = self._data.map[Top(last.key)])
       /\ last.raised = "KeyError"
          <=> /\ last.key \notin DOMAIN self._data.map
              /\ \/ ~Contains(last.key, ".")
                 \/ Top(last.key) \notin DOMAIN self._data.map

\* data {"gpu": 5}, key "gpu.a": the lookup returns 5.
C11_Witness ==
    /\ self.kind = "limit" /\ last.op = "get" /\ last.key = K_gpua
    /\ DOMAIN self._data.map = {K_gpu} /\ self._data.map[K_gpu] = 5
    /\ last.raised = "none" /\ last.ret = 5

\* key with every '.' replaced by '_'
Underscored(key) == [i \in 1..Len(key) |-> IF key[i] = "." THEN "_" ELSE key[i]]

\* C12 (Usage View lookup): get(key) returns the entry of the key with each
\* '.' replaced by '_' when there is one; otherwise, for a key with a '.',
\* the entry of the segment before the first '.'; when that is missing
\* too, or the key has no '.', it raises not-found.
C12_UsageLookup ==
    (self.kind = "usage" /\ last.op = "get")
    => /\ ~self._data.isNone
       /\ Underscored(last.key) \in DOMAIN self._data.map
          => (last.raised = "none" /\ last.ret = self._data.map[Underscored(last.key)])
       /\ (/\ Underscored(last.key) \notin DOMAIN self._data.map
           /\ Contains(last.key, ".")
           /\ Top(last.key) \in DOMAIN self._data.map)
          => (last.raised = "none" /\ last.ret = self._data.map[Top(last.key)])
       /\ last.raised = "KeyError"
          <=> /\ Underscored(last.key) \notin DOMAIN self._data.map
              /\ \/ ~Contains(last.key, ".")
                 \/ Top(last.key) \notin DOMAIN self._data.map

\* Usage {"gpu": 3, "gpu_a": 1}, key "gpu.a": the lookup returns the entry
\* of "gpu_a", not that of the parent group.
C12_Witness ==
    /\ self.kind = "usage" /\ last.op = "get" /\ last.key = K_gpua
    /\ DOMAIN self._data.map = {K_gpu, Underscored(K_gpua)}
    /\ self._data.map[K_gpu] = 3
    /\ last.raised = "none" /\ last.ret = 1

\* The trimmed text of a line before its first '=', and after it.
LineKey(item) == strip(SubSeq(item, 1, Find(item, "=") - 1))
LineValue(item) == strip(SubSeq(item, Find(item, "=") + 1, Len(item)))

\* v is a number as these outputs write numbers: digits.
Numeric(v) == Len(v) > 0 /\ \A i \in 1..Len(v) : IsDigit(v[i])

\* k is '<NAME>_LIMIT', the suffix in any case / 'ConcurrencyLimit_<NAME>'.
Accepts(view, k) ==
    IF view = "limit"
    THEN Len(k) >= 6 /\ lower(SubSeq(k, Len(k) - 5, Len(k))) = LIMIT_SUFFIX
    ELSE Len(k) >= 17 /\ SubSeq(k, 1, 17) = USAGE_PREFIX

\* <NAME> of an accepted key, as it is written.
Name(view, k) ==
    IF view = "limit" THEN SubSeq(k, 1, Len(k) - 6) ELSE SubSeq(k, 18, Len(k))

\* The line gives an entry: it has a '=', its key is accepted, its value is
\* a number.
Yields(item, view) ==
    /\ Contains(item, "=")
    /\ Accepts(view, LineKey(item))
    /\ Numeric(LineValue(item))

\* The last line of lines that gives an entry for resource k.
LastFor(lines, view, k) ==
    CHOOSE i \in 1..Len(lines) :
        /\ Yields(lines[i], view) /\ Name(view, LineKey(lines[i])) = k
        /\ \A j \in (i + 1)..Len(lines) :
               ~(Yields(lines[j], view) /\ Name(view, LineKey(lines[j])) = k)

\* The mapping the lines stand for: each resource some line gives an entry
\* for, with the number of the last such line.
RefParse(lines, view) ==
    [k \in {Name(view, LineKey(lines[i])) :
                i \in {j \in 1..Len(lines) : Yields(lines[j], view)}}
        |-> DecVal(LineValue(lines[LastFor(lines, view, k)]))]

\* C13 as stated: the line "GPU_LIMIT = 7" gives resource "gpu" with 7.0,
\* and a line without the suffix gives no entry.
C13_LimitKeyLowered ==
    (self.kind = "limit" /\ last.op = "get")
    => /\ last.q.lines = <<L_GPU7>>
          => (DOMAIN self._data.map = {K_gpu} /\ self._data.map[K_gpu] = 7)
       /\ last.q.lines = <<L_other>> => self._data.map = EmptyMap

\* C13 (limit parser key transform), amended: a line whose key is
\* '<NAME>_LIMIT', the suffix in any case, and whose value is a number gives
\* an entry for <NAME> in the case it is written in ("GPU_LIMIT = 7": "GPU"
\* with 7.0); every entry comes from such a line, so a line without the
\* suffix gives none.
C13_LimitKeyKeepsCase ==
    (self.kind = "limit" /\ last.op = "get")
    => /\ \A i \in 1..Len(last.q.lines) :
              Yields(last.q.lines[i], "limit")
              => Name("limit", LineKey(last.q.lines[i])) \in DOMAIN self._data.map
       /\ \A k \in DOMAIN self._data.map :
              \E i \in 1..Len(last.q.lines) :
                  /\ Yields(last.q.lines[i], "limit")
                  /\ Name("limit", LineKey(last.q.lines[i])) = k
       /\ last.q.lines = <<L_GPU7>>
          => (DOMAIN self._data.map = {<<"G", "P", "U">>}
              /\ self._data.map[<<"G", "P", "U">>] = 7)
       /\ last.q.lines = <<L_other>> => self._data.map = EmptyMap

\* "GPU_LIMIT = 7" and "OTHER_ATTR = x" parsed: the one entry "GPU": 7.
C13_Witness ==
    /\ self.kind = "limit" /\ last.op = "get"
    /\ last.q.lines = <<L_GPU7, L_other>>
    /\ DOMAIN self._data.map = {<<"G", "P", "U">>}
    /\ self._data.map[<<"G", "P", "U">>] = 7

\* A host record of four fields, the first three numbers.
WellFormed(machine_info) ==
    /\ Len(split(machine_info)) = 4
    /\ \A i \in 1..3 : Numeric(split(machine_info)[i])

\* The sum of field i over the records.
RECURSIVE SumField(_, _)
SumField(records, i) ==
    IF records = <<>> THEN 0
    ELSE DecVal(split(records[1])[i]) + SumField(SubSeq(records, 2, Len(records)), i)

\* The capacity mapping that stands for the (well-formed) records.
Aggregate(records) ==
    [k \in {K_cpus, K_memory, K_disk, K_machines} |->
        CASE k = K_cpus   -> SumField(records, 1)
          [] k = K_memory -> SumField(records, 2)
          [] k = K_disk   -> SumField(records, 3)
          [] OTHER -> Cardinality({split(records[i])[4] : i \in 1..Len(records)})]

\* C14 (capacity aggregation): when every record of the output is well
\* formed, the refresh gives cpus, memory and disk as the sums over all
\* records, duplicates included, and machines as the number of distinct
\* hosts.
C14_CapacityAggregation ==
    (/\ self.kind = "capacity" /\ last.op = "get"
     /\ \A i \in 1..Len(last.q.lines) : WellFormed(last.q.lines[i]))
    => /\ last.installed /\ last.raised \in Normal
       /\ self._data = Dict(Aggregate(last.q.lines))

\* Two records of host h1 with 4 cpus each: cpus = 8, machines = 1.
C14_Witness ==
    /\ self.kind = "capacity" /\ last.op = "get" /\ last.key = K_cpus
    /\ last.q.lines = <<R_h1, R_h1>>
    /\ last.ret = 8 /\ self._data.map[K_machines] = 1

\* C15 (malformed host records): whatever records the output holds, no
\* error reaches the caller and the capacity is the aggregate of the
\* well-formed ones.
C15_MalformedSkipped ==
    (self.kind = "capacity" /\ last.op = "get")
    => /\ last.raised \in Normal
       /\ self._data = Dict(Aggregate(SelectSeq(last.q.lines, WellFormed)))

\* C17 (key/value parser result): for every output and both key transforms
\* the parsed mapping is the one the lines stand for: a line without '='
\* gives nothing; nor does a line whose trimmed key the transform rejects or
\* whose trimmed value (the text after the first '=') is not a number; of
\* the lines that give the same resource the last one counts.
C17_ParserResult ==
    (self.kind \in {"limit", "usage"} /\ last.op = "get")
    => /\ last.installed
       /\ self._data = Dict(RefParse(last.q.lines, self.kind))

\* "gpu_limit=9", "gpu_LIMIT = 5", " gpu_LIMIT =x=1": the second line
\* overwrites the first, the third is not a number and changes nothing.
C17_Witness ==
    /\ self.kind = "limit" /\ last.op = "get" /\ last.key = K_gpu
    /\ last.q.lines = <<L_gpu9, L_gpu5, L_gpux>>
    /\ last.ret = 5 /\ DOMAIN self._data.map = {K_gpu}

\* The query of the last read failed: it exited non-zero or timed out.
QueryFailed(l) == l.op \in Reads /\ l.q.outcome \in {"fail", "timeout"}

\* C18 (no retry within an access, retry on the next): a read runs at most
\* one query, also when the query fails; a failed query leaves the expiry as
\* it was; and the read that follows a read whose query failed runs a query
\* again.
C18_RetryOnNextAccess ==
    [][/\ last'.op \in Reads => Len(last'.queries) <= 1
       /\ QueryFailed(last') => self'._valid_date = self._valid_date
       /\ (QueryFailed(last) /\ last'.op \in Reads /\ last' # last)
          => Len(last'.queries) = 1]_vars

\* The last operation is the get of the resource that the write just
\* before it wrote, both commands of the write having succeeded, and its
\* query printed the configuration.
ReadBack(op) ==
    /\ last.op = "get" /\ last.pre.after_write
    /\ store.wrote # <<>>
    /\ store.wrote.op = op /\ store.wrote.ok
    /\ store.wrote.key = last.key
    /\ last.q.outcome # "fail"

\* C20 (write/read round trip): the get that follows a set whose two
\* commands succeeded queries and returns int(value) for the same resource
\* string; the get that follows such a delete queries, finds no entry for
\* the resource, and returns the parent group's entry or raises not-found.
C20_WriteReadRoundTrip ==
    /\ ReadBack("set")
       => /\ Len(last.queries) = 1
          /\ last.raised = "none"
          /\ 2 * last.ret <= store.wrote.value /\ store.wrote.value < 2 * last.ret + 2
    /\ ReadBack("del")
       => /\ Len(last.queries) = 1
          /\ last.key \notin DOMAIN self._data.map
          /\ IF Contains(last.key, ".") /\ Top(last.key) \in DOMAIN self._data.map
             THEN last.raised = "none" /\ last.ret = self._data.map[Top(last.key)]
             ELSE last.raised = "KeyError"

\* set("GPU", 1.0) read back as 1 by the get that follows it, less than
\* max_age after the refresh before the set.
C20_Witness ==
    /\ ReadBack("set") /\ last.key = K_GPU /\ store.wrote.value = 2
    /\ last.ret = 1
    /\ last.pre.fresh_since > 0
    /\ last.t - last.pre.fresh_since < self.max_age

\* C16 (atomic swap): no thread that tests the expiry or reads the data
\* does so between another thread's lines 48 and 49, where the data is
\* already the new query result and the expiry still the old, expired one.
C16_AtomicSwap == \A t \in Threads : ~threads[t].mixed

\* No call is in progress.
AllIdle == \A t \in Threads : threads[t].pc = "idle"

\* C19 (invalidation survives a concurrent refresh): when a set whose two
\* commands succeeded has returned and no call is in progress, the cache
\* is expired or holds what the configuration holds since the write.
C19_InvalidationSurvives ==
    (AllIdle /\ store.wrote # <<>> /\ store.wrote.ok)
    => \/ IsExpired(self._valid_date, now)
       \/ self._data = _query_data(self, [outcome |-> "ok", lines |-> Dump(store.cfg)]).val

====
